---- MODULE Spec2Model ----
(***************************************************************************)
(* State-machine model of the quick-start notebook 0-quickstart.ipynb:     *)
(* data loaders, the NeuralNetwork module, train(), test(), the epoch      *)
(* loop, and the save / load / prediction cells.                           *)
(*                                                                         *)
(* Tensor SHAPES are modelled exactly (tuples of dimensions).  Tensor      *)
(* VALUES are abstracted: every parameter tensor, pixel and activation is  *)
(* one integer in the ring -Half .. ValMod-Half-1, and the data sets are   *)
(* scaled down from 60000 / 10000 samples to a few batches.                *)
(***************************************************************************)
EXTENDS Integers, Sequences, FiniteSets

\* ---------------------------------------------------------------- bounds
MaxFullBatches == 1          \* data sets hold 1..MaxFullBatches full batches plus a remainder
MaxSeed == 2                 \* number of distinct random initialisations
ValMod == 8                  \* size of the abstract value ring

\* ------------------------------------------------------ program constants
batch_size == 64
epochs == 20
LogEvery == 100
FashionMNISTTrainSize == 60000
Remainders == {0, 32}        \* an exact multiple, and 60000 % 64 = 32

Half == ValMod \div 2
Wrap(v) == ((v + Half) % ValMod) - Half

DatasetSizes == {k * batch_size + r : k \in 1..MaxFullBatches, r \in Remainders}
AcceleratorTypes == {"cuda", "mps"}

VARIABLES
    pc,            \* position in the notebook
    accelerator,   \* host: "none" or the type of the current accelerator
    trainSize,     \* len(training_data)
    testSize,      \* len(test_data)
    device,        \* the notebook's global `device`
    model,         \* the notebook's global `model`: [params, dev, training]
    grad,          \* .grad of the parameters: [val, of]; `of` is the history of the
                   \* batch indices whose backward is accumulated in val
    t,             \* epoch loop: iterations of range(epochs) completed
    pos,           \* data-loader iterator: samples already yielded
    batch,         \* train(): enumerate() index of the batch in hand
    iters,         \* history: iterations of the loop in test() so far
    X,             \* batch in hand: [idx, shape, yshape, dev]
    loss,          \* loss of the batch in hand
    fed,           \* history: sample indices given to model(), in order, this call
    fwd,           \* history: last forward pass [modelDev, inputDev, shape]
    steps,         \* history: optimizer.step() calls in this train() call
    test_loss,     \* test(): running sum of batch losses
    correct,       \* test(): running count of correct predictions
    out,           \* printed output
    file,          \* the file .\model : [exists, data]
    trained,       \* history: model parameters at the moment of saving
    loadResult,    \* value of the load cell
    lookup         \* prediction cell: [pred, shape, i, y, predicted, actual]

vars == <<pc, accelerator, trainSize, testSize, device, model, grad, t, pos,
          batch, iters, X, loss, fed, fwd, steps, test_loss, correct, out, file, trained,
          loadResult, lookup>>

\* ------------------------------------------------------------- data sets
\* FashionMNIST samples: one abstract pixel value and a class label 0..9.
\* test_data[0] has label 9 ("Ankle boot").
PixelValues == 0..3
Pixel(ds, i) == IF ds = "train" THEN i % 3 ELSE (i + 1) % 4
Label(ds, i) == IF ds = "train" THEN (7 * i + 2) % 10 ELSE (9 + 3 * i) % 10
SampleShape == <<1, 28, 28>>

\* ---------------------------------------------------------- DataLoader
\* variant: the number of full batches only
len_dataloader_m(size) == size \div batch_size

len_dataloader(size) == (size + batch_size - 1) \div batch_size

Min(a, b) == IF a < b THEN a ELSE b

\* indices of the batch that starts at iterator position p (sequential sampler,
\* drop_last = False)
BatchIndices(size, p) == [j \in 1..(Min(p + batch_size, size) - p) |-> p + j - 1]

NextBatch(size, p) ==
    LET idx == BatchIndices(size, p)
    IN [idx |-> idx, shape |-> <<Len(idx)>> \o SampleShape, yshape |-> <<Len(idx)>>,
        dev |-> "cpu"]

NoBatch == [idx |-> <<>>, shape |-> <<>>, yshape |-> <<>>, dev |-> "cpu"]

\* ------------------------------------------------------- NeuralNetwork
W0 == "linear_relu_stack.0.weight"
B0 == "linear_relu_stack.0.bias"
W2 == "linear_relu_stack.2.weight"
B2 == "linear_relu_stack.2.bias"
W4 == "linear_relu_stack.4.weight"
B4 == "linear_relu_stack.4.bias"
W6 == "linear_relu_stack.6.weight"
B6 == "linear_relu_stack.6.bias"
KeyOrder == <<W0, B0, W2, B2, W4, B4, W6, B6>>
Keys == {KeyOrder[i] : i \in 1..Len(KeyOrder)}
KeyIdx(k) == CHOOSE i \in 1..Len(KeyOrder) : KeyOrder[i] = k

\* in_features, out_features of the four nn.Linear layers
Layers == << <<28 * 28, 1024>>, <<1024, 1024>>, <<1024, 512>>, <<512, 10>> >>

RECURSIVE Prod(_)
Prod(s) == IF s = <<>> THEN 1 ELSE Head(s) * Prod(Tail(s))

\* nn.Flatten(): start_dim = 1, end_dim = -1
Flatten(s) == <<Head(s), Prod(Tail(s))>>

\* shape produced by nn.Linear(in, out); <<>> stands for the shape error
LinearShape(l, s) ==
    IF s # <<>> /\ s[Len(s)] = l[1] THEN [s EXCEPT ![Len(s)] = l[2]] ELSE <<>>

forwardShape(s) ==
    LinearShape(Layers[4], LinearShape(Layers[3], LinearShape(Layers[2],
        LinearShape(Layers[1], Flatten(s)))))

ReLU(v) == IF v > 0 THEN v ELSE 0
Linear(w, b, x) == Wrap(w * x + b)

\* logits of one sample; output unit c has weight row w*(c+1) and bias b+c
forward(p, x) ==
    LET h1 == ReLU(Linear(p[W0], p[B0], x))
        h2 == ReLU(Linear(p[W2], p[B2], h1))
        h3 == ReLU(Linear(p[W4], p[B4], h2))
        n  == Layers[4][2]
    IN [c \in 0..(n - 1) |-> Wrap(p[W6] * (c + 1) * h3 + p[B6] + c)]

\* index of the first maximal entry
FirstMax(v) ==
    CHOOSE i \in DOMAIN v :
        /\ \A j \in DOMAIN v : v[j] <= v[i]
        /\ \A j \in DOMAIN v : j < i => v[j] < v[i]

argmax(vv) == CHOOSE i \in {FirstMax(v) : v \in {vv}} : TRUE

\* random initialisation of a fresh module (parameters on the CPU, training mode)
InitParams(seed) == [k \in Keys |-> Wrap(seed * KeyIdx(k))]
NeuralNetwork(seed) == [params |-> InitParams(seed), dev |-> "cpu", training |-> TRUE]
\* variant: .to(device) has no effect
To_m(m, d) == m

To(m, d) == [m EXCEPT !.dev = d]
Zeros == [k \in Keys |-> 0]
NoModel == [params |-> Zeros, dev |-> "unset", training |-> FALSE]
ZeroGrads == [val |-> Zeros, of |-> {}]

state_dict(m) == m.params

\* variant: copies the weights only and leaves every bias as constructed
load_state_dict_m(m, sd) ==
    IF DOMAIN sd = Keys
    THEN [m EXCEPT !.params = [k \in Keys |-> IF KeyIdx(k) % 2 = 1 THEN sd[k] ELSE @[k]]]
    ELSE m

\* strict load: the key sets must be equal, then every entry is copied
load_state_dict(m, sd) ==
    IF DOMAIN sd = Keys THEN [m EXCEPT !.params = [k \in Keys |-> sd[k]]] ELSE m

load_result(sd) == IF DOMAIN sd = Keys THEN "All keys matched successfully" ELSE "error"

\* -------------------------------------------------- loss and optimizer
\* model(x).argmax() for every pixel value: the network as a table
Classify(p) == [x \in PixelValues |-> argmax(forward(p, x))]

\* model(X) for the batch with indices idx, each row reduced to its arg-max class
Predict(cls, ds, idx) == [j \in 1..Len(idx) |-> cls[Pixel(ds, idx[j])]]

\* y of the batch
Labels(ds, idx) == [j \in 1..Len(idx) |-> Label(ds, idx[j])]

\* (pred.argmax(1) == y).type(torch.float).sum().item()
CountEq(pred, y) == Cardinality({j \in 1..Len(y) : pred[j] = y[j]})

\* abstract CrossEntropyLoss of a batch: the number of misclassified samples
loss_fn(pred, y) == Cardinality({j \in 1..Len(y) : pred[j] # y[j]})

\* loss.backward() of batch b: adds the batch's gradient to every .grad
backward(g, l, b) ==
    [val |-> [k \in Keys |-> Wrap(g.val[k] + l + KeyIdx(k))], of |-> g.of \cup {b}]

\* SGD: p <- p - lr * grad  (lr folded into the abstraction)
sgd_step(p, g) == [k \in Keys |-> Wrap(p[k] - g.val[k])]

\* variant: gradients are never cleared
zero_grad_m(g) == g

zero_grad(g) == ZeroGrads

\* variant: off-by-one loop bound
range_has_next_m(i) == i <= epochs

\* for t in range(epochs): is there a next value after i iterations
range_has_next(i) == i < epochs

\* ---------------------------------------------------------- printing
Line(kind, a, b, c, d) == [kind |-> kind, a |-> a, b |-> b, c |-> c, d |-> d]

\* variant: the last class is missing from the list
classes_m == <<"T-shirt/top", "Trouser", "Pullover", "Dress", "Coat", "Sandal", "Shirt",
               "Sneaker", "Bag">>

classes == <<"T-shirt/top", "Trouser", "Pullover", "Dress", "Coat", "Sandal", "Shirt",
             "Sneaker", "Bag", "Ankle boot">>

\* list indexing classes[i]; "IndexError" when i is out of range
Index(list, i) == IF i \in 0..(Len(list) - 1) THEN list[i + 1] ELSE "IndexError"

NoLookup == [pred |-> <<>>, shape |-> <<>>, i |-> -1, y |-> -1,
             predicted |-> "", actual |-> ""]
NoFwd == [modelDev |-> "unset", inputDev |-> "unset", shape |-> <<>>]

\* ------------------------------------------------------------------ Init
Init ==
    /\ pc = "cell_data"
    /\ accelerator \in {"none"} \cup AcceleratorTypes
    /\ trainSize \in DatasetSizes
    /\ testSize \in DatasetSizes
    /\ device = "unset"
    /\ model = NoModel
    /\ grad = ZeroGrads
    /\ t = 0
    /\ pos = 0
    /\ batch = 0
    /\ iters = 0
    /\ X = NoBatch
    /\ loss = 0
    /\ fed = <<>>
    /\ fwd = NoFwd
    /\ steps = 0
    /\ test_loss = 0
    /\ correct = 0
    /\ out = <<>>
    /\ file = [exists |-> FALSE, data |-> Zeros]
    /\ trained = Zeros
    /\ loadResult = ""
    /\ lookup = NoLookup

\* --------------------------------------------------------------- actions
\* cell 3: build the loaders, print the shapes of the first test batch, break
CreateDataLoaders ==
    /\ pc = "cell_data"
    /\ X' = NextBatch(testSize, 0)
    /\ out' = Append(out, Line("shape", X'.shape, X'.yshape, 0, 0))
    /\ pc' = "cell_model"
    /\ UNCHANGED <<accelerator, trainSize, testSize, device, model, grad, t, pos, batch,
                   iters, loss, fed, fwd, steps, test_loss, correct, file, trained,
                   loadResult, lookup>>

\* the accelerator's type if one is available, else "cpu"
select_device(acc) == IF acc # "none" THEN acc ELSE "cpu"

\* cell 4: choose the device, construct the model and move it there
DefineModel ==
    /\ pc = "cell_model"
    /\ device' = select_device(accelerator)
    /\ \E seed \in 1..MaxSeed : model' = To(NeuralNetwork(seed), device')
    /\ out' = Append(out, Line("using", device', 0, 0, 0))
    /\ pc' = "cell_optim"
    /\ UNCHANGED <<accelerator, trainSize, testSize, grad, t, pos, batch, iters, X, loss,
                   fed, fwd, steps, test_loss, correct, file, trained, loadResult, lookup>>

\* cell 5: loss function and SGD optimizer over model.parameters()
CreateOptimizer ==
    /\ pc = "cell_optim"
    /\ grad' = ZeroGrads
    /\ pc' = "epoch_loop"
    /\ UNCHANGED <<accelerator, trainSize, testSize, device, model, t, pos, batch, iters,
                   X, loss, fed, fwd, steps, test_loss, correct, out, file, trained,
                   loadResult, lookup>>

\* epoch loop: next t, print the header, enter train()
EpochHeader ==
    /\ pc = "epoch_loop"
    /\ range_has_next(t)
    /\ out' = Append(out, Line("epoch", t + 1, 0, 0, 0))
    /\ model' = [model EXCEPT !.training = TRUE]
    /\ pos' = 0
    /\ batch' = -1
    /\ fed' = <<>>
    /\ steps' = 0
    /\ pc' = "train_iter"
    /\ UNCHANGED <<accelerator, trainSize, testSize, device, grad, t, iters, X, loss, fwd,
                   test_loss, correct, file, trained, loadResult, lookup>>

\* train(): next batch, move it to the device, prediction and loss.
\* (The singleton binders make each tensor a value that is computed once.)
TrainForward ==
    /\ pc = "train_iter"
    /\ pos < trainSize
    /\ \E b \in {NextBatch(trainSize, pos)}, cls \in {Classify(model.params)} :
       \E pred \in {Predict(cls, "train", b.idx)}, y \in {Labels("train", b.idx)} :
          /\ X' = To(b, device)
          /\ batch' = batch + 1
          /\ pos' = pos + Len(b.idx)
          /\ fwd' = [modelDev |-> model.dev, inputDev |-> X'.dev,
                     shape |-> forwardShape(b.shape)]
          /\ fed' = fed \o b.idx
          /\ loss' = loss_fn(pred, y)
    /\ pc' = "train_backward"
    /\ UNCHANGED <<accelerator, trainSize, testSize, device, model, grad, t, iters, steps,
                   test_loss, correct, out, file, trained, loadResult, lookup>>

\* train(): loss.backward()
Backward ==
    /\ pc = "train_backward"
    /\ grad' = backward(grad, loss, batch)
    /\ pc' = "train_step"
    /\ UNCHANGED <<accelerator, trainSize, testSize, device, model, t, pos, batch, iters,
                   X, loss, fed, fwd, steps, test_loss, correct, out, file, trained,
                   loadResult, lookup>>

\* train(): optimizer.step()
OptimizerStep ==
    /\ pc = "train_step"
    /\ model' = [model EXCEPT !.params = sgd_step(@, grad)]
    /\ steps' = steps + 1
    /\ pc' = "train_zero"
    /\ UNCHANGED <<accelerator, trainSize, testSize, device, grad, t, pos, batch, iters,
                   X, loss, fed, fwd, test_loss, correct, out, file, trained, loadResult,
                   lookup>>

\* train(): optimizer.zero_grad(), then the progress line every LogEvery batches
ZeroGradAndLog ==
    /\ pc = "train_zero"
    /\ grad' = zero_grad(grad)
    /\ out' = IF batch % LogEvery = 0
              THEN Append(out, Line("loss", loss, (batch + 1) * Len(X.idx), trainSize, 0))
              ELSE out
    /\ pc' = "train_iter"
    /\ UNCHANGED <<accelerator, trainSize, testSize, device, model, t, pos, batch, iters,
                   X, loss, fed, fwd, steps, test_loss, correct, file, trained,
                   loadResult, lookup>>

\* train(): the loader is exhausted, train() returns
TrainReturn ==
    /\ pc = "train_iter"
    /\ ~(pos < trainSize)
    /\ pc' = "test_start"
    /\ UNCHANGED <<accelerator, trainSize, testSize, device, model, grad, t, pos, batch,
                   iters, X, loss, fed, fwd, steps, test_loss, correct, out, file,
                   trained, loadResult, lookup>>

\* test(): model.eval(), test_loss, correct = 0, 0
TestStart ==
    /\ pc = "test_start"
    /\ model' = [model EXCEPT !.training = FALSE]
    /\ test_loss' = 0
    /\ correct' = 0
    /\ pos' = 0
    /\ iters' = 0
    /\ fed' = <<>>
    /\ pc' = "test_iter"
    /\ UNCHANGED <<accelerator, trainSize, testSize, device, grad, t, batch, X, loss, fwd,
                   steps, out, file, trained, loadResult, lookup>>

\* test(): one iteration of the loop under no_grad
TestBatch ==
    /\ pc = "test_iter"
    /\ pos < testSize
    /\ \E b \in {NextBatch(testSize, pos)}, cls \in {Classify(model.params)} :
       \E pred \in {Predict(cls, "test", b.idx)}, y \in {Labels("test", b.idx)} :
          /\ X' = To(b, device)
          /\ pos' = pos + Len(b.idx)
          /\ fwd' = [modelDev |-> model.dev, inputDev |-> X'.dev,
                     shape |-> forwardShape(b.shape)]
          /\ fed' = fed \o b.idx
          /\ test_loss' = test_loss + loss_fn(pred, y)
          /\ correct' = correct + CountEq(pred, y)
    /\ iters' = iters + 1
    /\ pc' = "test_iter"
    /\ UNCHANGED <<accelerator, trainSize, testSize, device, model, grad, t, batch, loss,
                   steps, out, file, trained, loadResult, lookup>>

\* test(): the loader is exhausted; divide and print the report.  The two
\* quotients are kept exact as numerator and denominator.
TestReport ==
    /\ pc = "test_iter"
    /\ ~(pos < testSize)
    /\ out' = Append(out, Line("test", correct, testSize, test_loss,
                               len_dataloader(testSize)))
    /\ t' = t + 1
    /\ pc' = "epoch_loop"
    /\ UNCHANGED <<accelerator, trainSize, testSize, device, model, grad, pos, batch,
                   iters, X, loss, fed, fwd, steps, test_loss, correct, file, trained,
                   loadResult, lookup>>

\* epoch loop exhausted: print("Done!")
PrintDone ==
    /\ pc = "epoch_loop"
    /\ ~range_has_next(t)
    /\ out' = Append(out, Line("done", 0, 0, 0, 0))
    /\ pc' = "cell_save"
    /\ UNCHANGED <<accelerator, trainSize, testSize, device, model, grad, t, pos, batch,
                   iters, X, loss, fed, fwd, steps, test_loss, correct, file, trained,
                   loadResult, lookup>>

\* cell 9: torch.save(model.state_dict(), ".\model")
SaveCell ==
    /\ pc = "cell_save"
    /\ file' = [exists |-> TRUE, data |-> state_dict(model)]
    /\ trained' = model.params
    /\ out' = Append(out, Line("saved", 0, 0, 0, 0))
    /\ pc' = "cell_load"
    /\ UNCHANGED <<accelerator, trainSize, testSize, device, model, grad, t, pos, batch,
                   iters, X, loss, fed, fwd, steps, test_loss, correct, loadResult,
                   lookup>>

\* cell 10: a fresh NeuralNetwork on the device, then load_state_dict(torch.load(...))
LoadCell ==
    /\ pc = "cell_load"
    /\ file.exists
    /\ \E seed \in 1..MaxSeed :
          model' = load_state_dict(To(NeuralNetwork(seed), device), file.data)
    /\ loadResult' = load_result(file.data)
    /\ pc' = "cell_predict"
    /\ UNCHANGED <<accelerator, trainSize, testSize, device, grad, t, pos, batch, iters,
                   X, loss, fed, fwd, steps, test_loss, correct, out, file, trained,
                   lookup>>

\* cell 11: model.eval(), predict test_data[0] and look both classes up
PredictCell ==
    /\ pc = "cell_predict"
    /\ model' = [model EXCEPT !.training = FALSE]
    /\ \E x \in {[shape |-> SampleShape, dev |-> device]}, y \in {Label("test", 0)},
          pred \in {forward(model.params, Pixel("test", 0))} :
       \E i \in {argmax(pred)} :
          /\ fwd' = [modelDev |-> model.dev, inputDev |-> x.dev,
                     shape |-> forwardShape(x.shape)]
          /\ lookup' = [pred |-> pred, shape |-> forwardShape(x.shape), i |-> i, y |-> y,
                        predicted |-> Index(classes, i), actual |-> Index(classes, y)]
          /\ out' = Append(out, Line("predicted", Index(classes, i), Index(classes, y),
                                     0, 0))
    /\ pc' = "finished"
    /\ UNCHANGED <<accelerator, trainSize, testSize, device, grad, t, pos, batch, iters,
                   X, loss, fed, steps, test_loss, correct, file, trained, loadResult>>

Next ==
    \/ CreateDataLoaders
    \/ DefineModel
    \/ CreateOptimizer
    \/ EpochHeader
    \/ TrainForward
    \/ Backward
    \/ OptimizerStep
    \/ ZeroGradAndLog
    \/ TrainReturn
    \/ TestStart
    \/ TestBatch
    \/ TestReport
    \/ PrintDone
    \/ SaveCell
    \/ LoadCell
    \/ PredictCell

Spec == Init /\ [][Next]_vars

\* the notebook's cells run to completion: no step waits on anything
FairSpec == Init /\ [][Next]_vars /\ WF_vars(Next)

\* ------------------------------------------------------------- claims
InOrder(s) == \A i \in 1..Len(s) : s[i] = i - 1
AfterLoop == pc \in {"cell_save", "cell_load", "cell_predict", "finished"}
InTrain == pc \in {"train_iter", "train_backward", "train_step", "train_zero", "test_start"}
LastLine == out[Len(out)]

\* C1: after the save cell and then the load cell, the reloaded model has exactly
\* the keys of the saved one, every parameter equals the trained parameter at
\* the moment of saving, the load reports that all keys matched, and the
\* prediction is computed from the trained parameters.
C1_SaveLoadRoundTrip ==
    /\ pc \in {"cell_predict", "finished"} =>
          /\ loadResult = "All keys matched successfully"
          /\ DOMAIN model.params = DOMAIN trained
          /\ \A k \in DOMAIN trained : model.params[k] = trained[k]
    /\ pc = "finished" => lookup.pred = forward(trained, Pixel("test", 0))

\* the load has happened and training moved the parameters away from every
\* fresh initialisation
C1_Witness ==
    /\ pc = "cell_predict"
    /\ model.params = trained
    /\ \A s \in 1..MaxSeed : \E k \in Keys : trained[k] # InitParams(s)[k]

MainLines == SelectSeq(out, LAMBDA l : l.kind \in {"epoch", "test", "done"})

C2_Order ==
    /\ Len(MainLines) <= 2 * epochs + 1
    /\ \A i \in 1..Len(MainLines) :
          IF i = 2 * epochs + 1 THEN MainLines[i].kind = "done"
          ELSE IF i % 2 = 1
               THEN MainLines[i].kind = "epoch" /\ MainLines[i].a = (i + 1) \div 2
               ELSE MainLines[i].kind = "test"
    /\ pc = "test_start" => steps = len_dataloader(trainSize) /\ Len(fed) = trainSize
    /\ (pc = "epoch_loop" /\ t > 0) =>
          /\ iters = len_dataloader(testSize)
          /\ Len(fed) = testSize
          /\ Len(MainLines) = 2 * t
    /\ AfterLoop <=> Len(MainLines) = 2 * epochs + 1

\* C2: the run is a plain nested loop: epochs 1..epochs in order, each one the
\* header, then train() over the whole training loader, then test() over the
\* whole test loader with exactly one report; "Done!" is printed exactly once,
\* after the last test(), and the loop terminates.
C2_EpochLoop == [](C2_Order) /\ <>(AfterLoop)

C2_Witness ==
    /\ pc = "cell_save"
    /\ Len(SelectSeq(out, LAMBDA l : l.kind = "test")) = epochs
    /\ LastLine.kind = "done"

\* C3: every batch that a data loader yields holds exactly batch_size features
\* and batch_size labels.
C3_EveryBatchFull ==
    X # NoBatch => X.shape[1] = batch_size /\ X.yshape[1] = batch_size

\* C4: in one call of train() the samples are given to the model in data-set
\* order, each exactly once; there is one optimizer step per batch, each after
\* the backward pass of that batch alone, ceil(size / batch_size) in all
\* (938 for 60000 samples).
C4_TrainEpoch ==
    /\ InTrain => InOrder(fed) /\ Len(fed) = pos /\ Len(fed) <= trainSize
    /\ pc = "train_step" => grad.of = {batch} /\ steps = batch
    /\ pc = "train_zero" => grad.of = {batch} /\ steps = batch + 1
    /\ pc = "train_iter" => steps = batch + 1
    /\ pc = "test_start" =>
          /\ Len(fed) = trainSize
          /\ steps * batch_size >= trainSize
          /\ (steps - 1) * batch_size < trainSize
          /\ steps = len_dataloader(trainSize)
    /\ len_dataloader(FashionMNISTTrainSize) = 938

C4_Witness ==
    /\ pc = "test_start"
    /\ steps >= 2
    /\ trainSize % batch_size # 0
    /\ t >= 1

\* number of test samples whose arg-max logit is the label, over the whole set
Hits(p, size) ==
    Cardinality({i \in 0..(size - 1) :
                    argmax(forward(p, Pixel("test", i))) = Label("test", i)})

\* number of batches of the whole set, counted without the loader
Ceil(size) == CHOOSE n \in 0..size : n * batch_size >= size /\ (n - 1) * batch_size < size

\* C5: test() evaluates every test sample exactly once; the reported accuracy is
\* (samples whose arg-max logit equals the label) / (data-set size), within
\* 0%..100%; the reported average loss is the sum of the batch losses divided
\* by len(dataloader), which is the number of loop iterations.
C5_TestReport ==
    (pc = "epoch_loop" /\ t > 0) =>
        /\ LastLine.kind = "test"
        /\ InOrder(fed) /\ Len(fed) = testSize
        /\ LastLine.a = Hits(model.params, testSize)
        /\ LastLine.b = testSize
        /\ 0 <= 100 * LastLine.a /\ 100 * LastLine.a <= 100 * LastLine.b
        /\ LastLine.c = testSize - Hits(model.params, testSize)
        /\ LastLine.d = iters
        /\ LastLine.d = len_dataloader(testSize)
        /\ LastLine.d = Ceil(testSize)

C5_Witness ==
    /\ pc = "epoch_loop"
    /\ t > 0
    /\ testSize % batch_size # 0
    /\ LastLine.kind = "test"
    /\ 0 < LastLine.a
    /\ LastLine.a < LastLine.b

\* C6: the prediction cell gets one row of exactly 10 logits for the sample of
\* shape [1, 28, 28]; the arg-max index and the label are both in 0..9 and both
\* look-ups in the 10-entry class list succeed.
C6_PredictionInRange ==
    pc = "finished" =>
        /\ lookup.shape = <<1, 10>>
        /\ DOMAIN lookup.pred = 0..9
        /\ lookup.i \in 0..9
        /\ lookup.y \in 0..9
        /\ Len(classes) = 10
        /\ lookup.predicted # "IndexError"
        /\ lookup.actual # "IndexError"
        /\ lookup.predicted = classes[lookup.i + 1]
        /\ lookup.actual = classes[lookup.y + 1]

C6_Witness ==
    /\ pc = "finished"
    /\ lookup.actual = "Ankle boot"
    /\ lookup.predicted # "IndexError"

C7_Inv ==
    /\ device # "unset" => device = (IF accelerator = "none" THEN "cpu" ELSE accelerator)
    /\ fwd # NoFwd => fwd.modelDev = device /\ fwd.inputDev = device
    /\ pc \in {"cell_predict", "finished"} => model.dev = device

\* C7: the device is the accelerator's type when one is available and "cpu"
\* otherwise; it is chosen once; every forward pass in train(), test() and the
\* prediction cell has the model and its input on that device, also for the
\* model re-created in the load cell.
C7_Device == [](C7_Inv) /\ [][device # "unset" => device' = device]_vars

C7_Witness ==
    /\ pc = "finished"
    /\ device \in AcceleratorTypes
    /\ fwd.modelDev = device
    /\ fwd.inputDev = device

====
